---------------------------- MODULE Spec2Model ----------------------------
(***************************************************************************)
(* A model of the YouTube Shorts uploader: the account store               *)
(* (app/utils.py), the credential refresher and the /upload,               *)
(* /refresh-token request handlers (app/main.py) and the audio mixer       *)
(* (app/audio_processor.py).                                               *)
(*                                                                         *)
(* Five specifications share the module:                                    *)
(*   SpecStore  concurrent requests that load the account store, refresh   *)
(*              a token and persist it with update_account_token, taken    *)
(*              one file-system call at a time, with a server crash;       *)
(*   Spec       one request at a time through the /upload pipeline and     *)
(*              the /refresh-token handler, with the temp files on disk;   *)
(*   SpecLive   Spec with the handler running to its end (fairness);       *)
(*   SpecCalls  single calls of update_account_token and mix_audio and of   *)
(*              the /check-account handler, on files and arguments drawn   *)
(*              from bounded sets;                                         *)
(*   SpecTitle  single calls of clean_title on titles, hashtag lists and   *)
(*              lengths drawn from bounded sets.                           *)
(*                                                                         *)
(* accounts.json is modelled as a sequence of cells <<key, value>>: one    *)
(* cell per JSON token group ("{", an account's name and opening brace,    *)
(* one key/value pair, an account's closing brace, "}").  json_dump and    *)
(* json_load convert between a mapping and its cells.                      *)
(***************************************************************************)
EXTENDS Integers, Sequences, FiniteSets, TLC

\* ------------------------------------------------------------------ bounds

\* Concurrent requests of SpecStore.
NumProcs == 2
\* Cells one write() system call transfers (the buffered writer's flush size).
ChunkSize == 10
\* next_chunk() calls that report progress before the final response.
MaxChunks == 2

\* SpecTitle: the longest title (in characters) and the most hashtags.
MaxTitleLen == 4
MaxTags == 2

\* ------------------------------------------------------------------ values

\* Python's None (distinct from the string 'None').
PyNone == "<None>"

\* The clock: utcnow(), and the lifetime of a freshly issued token.
Now == 2
TokenLifetime == 1

\* datetime.isoformat(): the text of a time.
IsoTable == <<"T1", "T2", "T3", "T4", "T5">>
isoformat(t) == IsoTable[t]

\* The access tokens the token endpoint issues, in the order it issues them.
IssuedTokens == <<"tokA", "tokB", "tokC", "tokD", "tokE", "tokF">>

\* A dict: a function from its keys to their values.
EmptyDict == <<>>
Put(d, k, v) == (k :> v) @@ d
\* dict.get(k): None when the key is absent.
Get(d, k) == IF k \in DOMAIN d THEN d[k] ELSE PyNone

\* The order json.dump writes the accounts in, and the keys the code writes
\* into a record in the order it inserts them (a dict keeps insertion
\* order): setup_account.py 25-32, then token_expiry appended by
\* update_account_token (utils.py 60).
NameOrder == <<"acct1", "acct2", "acct3">>
KeyOrder == <<"client_id", "client_secret", "refresh_token", "token",
              "token_uri", "scopes", "token_expiry">>
FieldKeys == {KeyOrder[i] : i \in 1..Len(KeyOrder)}

\* The credential record setup_account.py stores for an account (lines
\* 25-32).
setup_account(n) ==
    [client_id |-> "id", client_secret |-> "secret",
     refresh_token |-> "refresh", token |-> "tok0",
     token_uri |-> "https://oauth2.googleapis.com/token", scopes |-> "upload"]

\* accounts.json as onboarding left it: setup_account run for acct1 and for
\* acct2.
InitialAccounts == [n \in {"acct1", "acct2"} |-> setup_account(n)]

\* ------------------------------------------------------------ json

NulCell == <<"nul", "">>

\* A set of keys as a sequence.
RECURSIVE SeqOf(_)
SeqOf(keys) ==
    IF keys = {} THEN <<>>
    ELSE <<CHOOSE k \in keys : TRUE>> \o SeqOf(keys \ {CHOOSE k \in keys : TRUE})

\* The order the keys of a record are written in: the keys the code writes,
\* then any key added by hand (channel_title, which check_account reads),
\* token_expiry staying last as update_account_token appends it.
DumpOrder(rec) ==
    SubSeq(KeyOrder, 1, Len(KeyOrder) - 1) \o SeqOf(DOMAIN rec \ FieldKeys)
        \o <<"token_expiry">>

RECURSIVE DumpKeys(_, _)
DumpKeys(rec, i) ==
    IF i > Len(DumpOrder(rec)) THEN <<>>
    ELSE (IF DumpOrder(rec)[i] \in DOMAIN rec
          THEN << <<DumpOrder(rec)[i], rec[DumpOrder(rec)[i]]>> >> ELSE <<>>)
         \o DumpKeys(rec, i + 1)

RECURSIVE DumpAccounts(_, _)
DumpAccounts(m, i) ==
    IF i > Len(NameOrder) THEN <<>>
    ELSE (IF NameOrder[i] \in DOMAIN m
          THEN << <<"name", NameOrder[i]>> >> \o DumpKeys(m[NameOrder[i]], 1)
               \o << <<"end", "">> >>
          ELSE <<>>)
         \o DumpAccounts(m, i + 1)

\* json.dump(accounts, f): the cells written.
json_dump(m) == << <<"{", "">> >> \o DumpAccounts(m, 1) \o << <<"}", "">> >>

JsonBad == [ok |-> FALSE, next |-> 0, val |-> EmptyDict]

\* An account's key/value pairs up to its closing brace.
RECURSIVE ParseKeys(_, _, _)
ParseKeys(c, i, rec) ==
    IF i > Len(c) THEN JsonBad
    ELSE IF c[i][1] = "end" THEN [ok |-> TRUE, next |-> i + 1, val |-> rec]
    ELSE IF c[i][1] \notin {"{", "}", "name", "nul"}
         THEN ParseKeys(c, i + 1, Put(rec, c[i][1], c[i][2]))
    ELSE JsonBad

\* The accounts up to the closing brace, which must end the text.
RECURSIVE ParseAccounts(_, _, _)
ParseAccounts(c, i, m) ==
    IF i > Len(c) THEN JsonBad
    ELSE IF c[i][1] = "}"
         THEN (IF i = Len(c) THEN [ok |-> TRUE, next |-> i + 1, val |-> m]
               ELSE JsonBad)
    ELSE IF c[i][1] = "name"
         THEN LET r == ParseKeys(c, i + 1, EmptyDict)
              IN  IF r.ok THEN ParseAccounts(c, r.next, Put(m, c[i][2], r.val))
                  ELSE JsonBad
    ELSE JsonBad

\* json.load(f): ok and the mapping, or not ok (JSONDecodeError).
json_load(c) ==
    IF Len(c) = 0 \/ c[1][1] # "{" THEN JsonBad
    ELSE ParseAccounts(c, 2, EmptyDict)

\* ------------------------------------------------- update_account_token

\* Lines 56-60 of update_account_token: the mapping with the token set, and
\* token_expiry set when an expiry is given.
SetToken_skip(accounts, name, token, expiry) == accounts

\* The token (and the expiry) set on every account of the mapping.
SetToken_everywhere(accounts, name, token, expiry) ==
    [n \in DOMAIN accounts |->
        IF expiry # PyNone /\ expiry # ""
        THEN Put(Put(accounts[n], "token", token), "token_expiry", expiry)
        ELSE Put(accounts[n], "token", token)]

SetToken(accounts, name, token, expiry) ==
    LET r1 == Put(accounts[name], "token", token)
        r2 == IF expiry # PyNone /\ expiry # ""
              THEN Put(r1, "token_expiry", expiry) ELSE r1
    IN  [accounts EXCEPT ![name] = r2]

\* write(): data written at offset off of a file holding c (a gap left by a
\* truncation reads as NUL).
WriteAt(c, off, data) ==
    [i \in 1..off |-> IF i <= Len(c) THEN c[i] ELSE NulCell]
    \o data
    \o (IF Len(c) > off + Len(data)
        THEN SubSeq(c, off + Len(data) + 1, Len(c)) ELSE <<>>)


\* ------------------------------------------------------------ state

VARIABLES
    \* SpecStore: the config directory, the open files and the requests.
    dir,        \* inode of accounts.json and of accounts.json.bak (0: absent)
    inodes,     \* inode -> the cells the file holds
    proc,       \* request -> its position and locals
    crashed,    \* the server process has died
    setup,      \* the onboarding script setup_account.py: its position and locals
    \* Both: the token endpoint.
    nextTok,    \* serial number of the next token the endpoint issues
    \* Spec: one request through /upload, /refresh-token or /check-account.
    req,        \* the request's inputs
    pc,         \* the pipeline state of the request
    storeFile,  \* accounts.json: [exists, data]
    bakFile,    \* accounts.json.bak: [exists, data]
    disk,       \* the temp files that exist: path -> size
    accounts,   \* the mapping load_accounts() returned
    temp_files, \* upload_video's list of temp files to clean up
    final_video_path, \* the file handed to the remote upload
    resp,       \* the response returned: [status, body]
    hist,       \* what the request did (calls made, outcomes seen)
    \* SpecCalls, SpecTitle: one call of a function or of /check-account.
    call        \* the call made: its name, its arguments and what it returned

fsVars == <<dir, inodes, proc, crashed, setup>>
upVars == <<req, pc, storeFile, bakFile, disk, accounts, temp_files,
            final_video_path, resp, hist>>
vars == <<fsVars, nextTok, upVars, call>>

\* No request, no response yet, nothing done yet, no call made.
NoCall == [op |-> "-"]
NoSetup ==
    [pc |-> "off", acct |-> "acct3", accounts |-> EmptyDict, buf |-> <<>>,
     fd |-> 0, off |-> 0]
NoRequest ==
    [kind |-> "none", content_type |-> PyNone, has_video |-> FALSE,
     filename |-> <<>>, accountname |-> PyNone, sound_name |-> PyNone]
NoResponse == [status |-> 0, body |-> <<"-", "">>]
NoHistory ==
    [cred |-> EmptyDict, refreshCalls |-> 0, refreshOutcome |-> "-", refreshMsg |-> "",
     updateCalls |-> 0, updateRes |-> "-", mixCalls |-> 0, insertCalls |-> 0,
     chunkCalls |-> 0, lastChunk |-> "-", uploaded |-> PyNone, cleanupRuns |-> 0,
     unlinkFailed |-> {}, mixUnlinkFailed |-> FALSE, mixOutcome |-> "-"]


\* ------------------------------------------------------------ Spec: inputs

Range(f) == {f[i] : i \in DOMAIN f}

\* bool(x) of a string or None.
Truthy(x) == x # PyNone /\ x # ""

\* str.lower() on the texts the model uses.
Lower(x) ==
    CASE x = "MOV" -> "mov"
      [] x = "MP4" -> "mp4"
      [] x = "Ding" -> "ding"
      [] x = "Invalid_Grant: Token has been revoked" -> "invalid_grant: token has been revoked"
      [] x = "invalid_grant: Bad Request" -> "invalid_grant: bad request"
      [] x = "Connection timed out" -> "connection timed out"
      [] OTHER -> x

\* Line 30.
ALLOWED_EXTENSIONS == {"mp4", "mov"}

\* allowed_file(filename), lines 71-72; a filename is the sequence of its
\* dot-separated parts.
allowed_file_any(filename) == TRUE

allowed_file(filename) ==
    Len(filename) >= 2 /\ Lower(filename[Len(filename)]) \in ALLOWED_EXTENSIONS

\* 'multipart/form-data' in content_type, line 182.
IsMultipart(ct) == ct \in {"multipart/form-data; boundary=x"}

\* The files of /app/sounds, and find_sound_file(sound_name), lines 95-118:
\* quotes stripped, compared in lower case with each file's base name.
SoundFiles == {<<"Ding", "mp3">>}
StripQuotes(x) == IF x = "'ding'" THEN "ding" ELSE x
find_sound_file_any(sound_name) == "/app/sounds/Ding.mp3"

find_sound_file(sound_name) ==
    LET hits == {f \in SoundFiles : Lower(f[1]) = Lower(StripQuotes(sound_name))}
    IN  IF hits = {} THEN PyNone ELSE "/app/sounds/Ding.mp3"

\* 'invalid_grant' in str(refresh_error).lower(), lines 166 and 445.
RefreshErrors == {"Invalid_Grant: Token has been revoked",
                  "invalid_grant: Bad Request", "Connection timed out"}
HasInvalidGrant(msg) ==
    Lower(msg) \in {"invalid_grant: token has been revoked", "invalid_grant: bad request"}

\* The temp files of a request: tempfile.NamedTemporaryFile (line 218) and
\* the mixer's output path (audio_processor.py line 24).
TempVideo == "/tmp/tmp_upload.mp4"
OutputPath == "/tmp/output.mp4"

\* The requests a client may send.
UploadRequests ==
    [kind : {"upload"},
     content_type : {PyNone, "application/json", "multipart/form-data; boundary=x"},
     has_video : BOOLEAN,
     filename : {<<>>, <<"clip">>, <<"clip", "avi">>, <<"clip", "mp4">>, <<"clip", "MOV">>},
     accountname : {PyNone, "ghost", "acct1"},
     sound_name : {PyNone, "", "'ding'", "nope"}]
RefreshRequests ==
    [kind : {"refresh"}, content_type : {"application/json"}, has_video : {FALSE},
     filename : {<<>>}, accountname : {PyNone, "ghost", "acct1"},
     sound_name : {PyNone}]

CheckRequests ==
    [kind : {"check"}, content_type : {PyNone}, has_video : {FALSE},
     filename : {<<>>}, accountname : {PyNone, "", "ghost", "acct1"},
     sound_name : {PyNone}]

\* The stored access tokens and expiries the store may hold for acct1 when a
\* request arrives.
StoredTokens == {PyNone, "", "None", "tok0"}
StoredExpiries == {PyNone, isoformat(Now - 1), isoformat(Now + 1)}
StoreWith(tok, exp) ==
    [n \in {"acct1", "acct2"} |->
        IF n = "acct1"
        THEN LET r == Put(setup_account(n), "token", tok)
             IN  IF exp = PyNone THEN r ELSE Put(r, "token_expiry", exp)
        ELSE setup_account(n)]

\* ------------------------------------------------------------ Spec: helpers

\* load_accounts(), lines 74-83, on the file as it is.
load_accounts(sf) ==
    IF ~sf.exists THEN [ok |-> FALSE, err |-> "ConfigMissing", val |-> EmptyDict]
    ELSE LET r == json_load(sf.data)
         IN  IF r.ok THEN [ok |-> TRUE, err |-> "-", val |-> r.val]
             ELSE [ok |-> FALSE, err |-> "ConfigCorrupt", val |-> EmptyDict]

\* update_account_token with the backup made before the account is looked up.
update_account_token_backup_first(sf, bf, account_name, token, expiry) ==
    IF ~sf.exists THEN [res |-> "False", store |-> sf, bak |-> bf]
    ELSE LET r == json_load(sf.data)
         IN  IF ~r.ok THEN [res |-> "False", store |-> sf, bak |-> bf]
             ELSE IF account_name \notin DOMAIN r.val
             THEN [res |-> "False", store |-> [exists |-> FALSE, data |-> <<>>],
                   bak |-> sf]
             ELSE [res |-> "True",
                   store |-> [exists |-> TRUE,
                              data |-> json_dump(SetToken(r.val, account_name, token, expiry))],
                   bak |-> sf]

\* update_account_token(account_name, token, expiry), lines 39-76, run alone:
\* its result and the two files afterwards (r is what json.load returned,
\* read once).
update_account_token(sf, bf, account_name, token, expiry) ==
    IF ~sf.exists THEN [res |-> "False", store |-> sf, bak |-> bf]
    ELSE CHOOSE out \in
           {IF ~r.ok \/ account_name \notin DOMAIN r.val
            THEN [res |-> "False", store |-> sf, bak |-> bf]
            ELSE [res |-> "True",
                  store |-> [exists |-> TRUE,
                             data |-> json_dump(SetToken(r.val, account_name, token, expiry))],
                  bak |-> sf] :
              r \in {json_load(sf.data)}} : TRUE

\* google.oauth2.credentials.Credentials(token=..., refresh_token=..., ...) as
\* lines 130-136 and 411-417 build it: no expiry is passed, so it has none.
Credentials(token, credentials_data) ==
    [token |-> token, refresh_token |-> credentials_data["refresh_token"],
     client_id |-> credentials_data["client_id"],
     client_secret |-> credentials_data["client_secret"], expiry |-> {}]

\* credentials.expired (line 142): false without an expiry, else whether the
\* expiry has passed.
expired(credentials) == \E t \in credentials.expiry : Now >= t

\* Lines 126-128 and 407-409: the stored token, the 'None' text read as None.
StoredToken(credentials_data) ==
    LET token == Get(credentials_data, "token")
    IN  IF token = "None" THEN PyNone ELSE token

\* Line 142: whether get_youtube_service refreshes.
NeedsRefresh(credentials_data) ==
    LET token == StoredToken(credentials_data)
    IN  ~Truthy(token) \/ expired(Credentials(token, credentials_data))

\* What credentials.refresh(request) may do: issue a token with an expiry,
\* a token without one, answer without a token, or raise.
RefreshOutcomes ==
    {[kind |-> k, msg |-> ""] : k \in {"token_expiry", "token", "no_token"}}
    \cup {[kind |-> "error", msg |-> m] : m \in RefreshErrors}

\* Lines 162-169: whether get_youtube_service raises after this outcome.
RefreshRaises_swallow(outcome) == FALSE

RefreshRaises(outcome) == outcome.kind = "error"

\* The token persisted whatever the refresh did.
Persist_always(sf, bf, account_name, outcome, token) ==
    update_account_token(sf, bf, account_name, token, PyNone)

\* Lines 149-156 and 423-429: the files after a refresh with this outcome was
\* persisted for account_name (update_account_token is called when a token
\* came back), and the result of the call ("-": not called).
Persist(sf, bf, account_name, outcome, token) ==
    IF outcome.kind = "token_expiry" /\ Truthy(account_name)
    THEN update_account_token(sf, bf, account_name, token, isoformat(Now + TokenLifetime))
    ELSE IF outcome.kind = "token" /\ Truthy(account_name)
    THEN update_account_token(sf, bf, account_name, token, PyNone)
    ELSE [res |-> "-", store |-> sf, bak |-> bf]

\* cleanup_temp_files(files), lines 85-93: every listed file that exists is
\* unlinked; an unlink that raises (the files in failing) is logged.
cleanup_keep_all(dk, files, failing) == dk

cleanup_temp_files(dk, files, failing) ==
    [f \in (DOMAIN dk) \ (Range(files) \ failing) |-> dk[f]]

\* What the ffmpeg runs of mix_audio may do (audio_processor.py lines 33-74):
\* the probe fails; the mix exits non-zero, with or without a partial
\* output; it exits zero with no output, an empty output or a good one; or
\* the run raises something else, with or without a partial output.
MixOutcomes == {"probe_failed", "tool_failed", "tool_failed_partial",
                "no_output", "empty_output", "ok",
                "unexpected", "unexpected_partial"}

\* The sound files that exist.
SoundPaths == {"/app/sounds/Ding.mp3"}

\* The output file the mix leaves before mix_audio looks at it: its size,
\* or none.
MixLeaves(outcome) ==
    IF outcome = "ok" THEN {1}
    ELSE IF outcome \in {"tool_failed_partial", "unexpected_partial"} THEN {1}
    ELSE IF outcome = "empty_output" THEN {0}
    ELSE {}

\* mix_audio with the error handlers (lines 65-74) not deleting the output.
mix_audio_keep(dk, video_path, sound_path, outcome, unlink_ok) ==
    IF video_path \notin DOMAIN dk \/ sound_path \notin SoundPaths
    THEN [ok |-> FALSE, err |-> "FileNotFoundError", path |-> PyNone, disk |-> dk]
    ELSE IF outcome = "ok"
    THEN [ok |-> TRUE, err |-> "-", path |-> OutputPath, disk |-> Put(dk, OutputPath, 1)]
    ELSE [ok |-> FALSE, err |-> "RuntimeError", path |-> PyNone,
          disk |-> IF MixLeaves(outcome) = {} THEN dk
                   ELSE Put(dk, OutputPath, CHOOSE n \in MixLeaves(outcome) : TRUE)]

\* mix_audio(video_path, sound_path), lines 16-74: ok and the output path, or
\* the error raised; and the disk afterwards.  Both inputs must exist (27-30)
\* and the probe pass (33-42).  The path is returned when the mix exited
\* zero and the output exists with a size above zero (60-62); otherwise the
\* handlers unlink the output when it exists and raise RuntimeError (65-69)
\* or re-raise (70-74); an os.unlink that raises there leaves the output and
\* propagates in place of the error.
mix_audio(dk, video_path, sound_path, outcome, unlink_ok) ==
    IF video_path \notin DOMAIN dk \/ sound_path \notin SoundPaths
    THEN [ok |-> FALSE, err |-> "FileNotFoundError", path |-> PyNone, disk |-> dk]
    ELSE IF outcome = "probe_failed"
    THEN [ok |-> FALSE, err |-> "ValueError", path |-> PyNone, disk |-> dk]
    ELSE IF outcome = "ok"
    THEN [ok |-> TRUE, err |-> "-", path |-> OutputPath, disk |-> Put(dk, OutputPath, 1)]
    ELSE IF MixLeaves(outcome) # {} /\ ~unlink_ok
    THEN [ok |-> FALSE, err |-> "OSError(unlink)", path |-> PyNone,
          disk |-> Put(dk, OutputPath, CHOOSE n \in MixLeaves(outcome) : TRUE)]
    ELSE [ok |-> FALSE,
          err |-> IF outcome \in {"unexpected", "unexpected_partial"}
                  THEN "Exception" ELSE "RuntimeError",
          path |-> PyNone, disk |-> dk]

\* The /check-account response that shows a secret (the stored token).
check_account_leaky(sf, accountname) ==
    [status |-> 200, error |-> "-",
     account_info |-> IF load_accounts(sf).ok /\ accountname \in DOMAIN load_accounts(sf).val
                      THEN load_accounts(sf).val[accountname] ELSE EmptyDict]

\* check_account(), main.py 340-378, for the query parameter accountname on
\* accounts.json as it is: the status and the JSON body (the error, or the
\* account_info built at lines 361-368).
check_account(sf, accountname) ==
    IF ~Truthy(accountname)
    THEN [status |-> 400, error |-> "Account name is required as a query parameter",
          account_info |-> EmptyDict]
    ELSE IF ~load_accounts(sf).ok
    THEN [status |-> 500, error |-> "Error loading account configuration",
          account_info |-> EmptyDict]
    ELSE IF accountname \notin DOMAIN load_accounts(sf).val
    THEN [status |-> 404, error |-> "Account not found", account_info |-> EmptyDict]
    ELSE LET account_data == load_accounts(sf).val[accountname]
         IN  [status |-> 200, error |-> "-",
              account_info |->
                [account |-> accountname,
                 has_token |-> Truthy(Get(account_data, "token")),
                 has_refresh_token |-> Truthy(Get(account_data, "refresh_token")),
                 token_expiry |-> Get(account_data, "token_expiry"),
                 channel_title |-> IF "channel_title" \in DOMAIN account_data
                                   THEN account_data["channel_title"] ELSE "Unknown",
                 scopes |-> IF "scopes" \in DOMAIN account_data
                            THEN account_data["scopes"] ELSE "[]"]]

\* ------------------------------------------------------------ SpecStore

Procs == 1..NumProcs
Inodes == 1..(NumProcs + 3)

\* The positions inside update_account_token.
UTpcs == {"ut_exists", "ut_open_r", "ut_read", "ut_exists2", "ut_replace",
          "ut_open", "ut_write"}

\* The cells of the file a directory entry names.
FileCells(ino) == IF ino = 0 THEN <<>> ELSE inodes[ino]

\* An inode no directory entry and no open file refers to.
Referenced(d, pr, su) == {d.cfg, d.bak} \cup {pr[p].fd : p \in Procs} \cup {su.fd}
FreeInode(d, pr, su) ==
    CHOOSE i \in Inodes : i \notin Referenced(d, pr, su) /\
        \A j \in Inodes : j \notin Referenced(d, pr, su) => i <= j

\* The storage of unreferenced inodes is released.
Release(ino, d, pr, su) ==
    [i \in Inodes |-> IF i \in Referenced(d, pr, su) THEN ino[i] ELSE <<>>]

\* os.replace(config_path, backup_path), line 66: the directory afterwards.
os_replace_nobackup(d) == d

os_replace(d) == [cfg |-> 0, bak |-> d.cfg]

InitProc(a) ==
    [pc |-> "load", acct |-> a, loadRes |-> "-", status |-> 0,
     newTok |-> PyNone, newExp |-> PyNone, buf |-> <<>>, fd |-> 0, off |-> 0,
     utRes |-> "-", prev |-> JsonBad, overlap |-> FALSE]

\* The request ends with this status (the response is returned); its file is
\* closed and its locals are gone.
Done(p, st, more) ==
    [more EXCEPT !.pc = "done", !.status = st, !.fd = 0, !.off = 0,
                 !.buf = <<>>, !.prev = JsonBad, !.overlap = FALSE]

\* update_account_token returns res; its caller ignores the result and answers
\* success (main.py 427-435, 154-156).
UTReturn(p, res) == Done(p, 200, [proc[p] EXCEPT !.utRes = res])

\* load_accounts(), line 76: open('/app/config/accounts.json', 'r');
\* FileNotFoundError is answered 500 (lines 392-394).
LoadOpen(p) ==
    /\ ~crashed /\ proc[p].pc = "load"
    /\ proc' = [proc EXCEPT ![p] =
          IF dir.cfg = 0
          THEN Done(p, 500, [proc[p] EXCEPT !.loadRes = "ConfigMissing"])
          ELSE [proc[p] EXCEPT !.pc = "load_read", !.fd = dir.cfg]]
    /\ UNCHANGED <<dir, inodes, nextTok, crashed, setup, upVars, call>>

\* load_accounts(), line 77: json.load(f) of the file that was opened, and
\* the membership test (lines 391-397).
LoadAccounts(p) ==
    /\ ~crashed /\ proc[p].pc = "load_read"
    /\ LET r == json_load(inodes[proc[p].fd])
           me == [proc[p] EXCEPT !.loadRes = IF r.ok THEN "ok" ELSE "ConfigCorrupt"]
       IN  proc' = [proc EXCEPT ![p] =
                IF ~r.ok THEN Done(p, 500, me)
                ELSE IF me.acct \notin DOMAIN r.val THEN Done(p, 404, me)
                ELSE [me EXCEPT !.pc = "refresh", !.fd = 0]]
    /\ inodes' = Release(inodes, dir, proc', setup)
    /\ UNCHANGED <<dir, nextTok, crashed, setup, upVars, call>>

\* credentials.refresh(request), line 420 (145), and what follows it (lines
\* 423-451): with a token issued update_account_token is entered, with the
\* expiry's isoformat when the credentials have one (425-429); without a
\* token the answer is 500; an error is answered 401 when its text holds
\* invalid_grant and 500 otherwise.
CredentialsRefresh(p) ==
    /\ ~crashed /\ proc[p].pc = "refresh"
    /\ \E outcome \in RefreshOutcomes :
         IF outcome.kind \in {"token", "token_expiry"}
         THEN /\ nextTok <= Len(IssuedTokens)
              /\ LET busy == {q \in Procs \ {p} : proc[q].pc \in UTpcs}
                     snap == IF dir.cfg = 0 THEN JsonBad
                             ELSE json_load(FileCells(dir.cfg))
                 IN  proc' = [q \in Procs |->
                        IF q = p
                        THEN [proc[p] EXCEPT
                                !.pc = "ut_exists",
                                !.newTok = IssuedTokens[nextTok],
                                !.newExp = IF outcome.kind = "token_expiry"
                                           THEN isoformat(Now + TokenLifetime)
                                           ELSE PyNone,
                                !.prev = snap,
                                !.overlap = (busy # {})]
                        ELSE IF q \in busy THEN [proc[q] EXCEPT !.overlap = TRUE]
                        ELSE proc[q]]
              /\ nextTok' = nextTok + 1
         ELSE /\ proc' = [proc EXCEPT ![p] =
                    Done(p, IF outcome.kind = "error" /\ HasInvalidGrant(outcome.msg)
                            THEN 401 ELSE 500,
                         proc[p])]
              /\ UNCHANGED nextTok
    /\ UNCHANGED <<dir, inodes, crashed, setup, upVars, call>>

\* Line 43: config_path.exists().
UT_Exists(p) ==
    /\ ~crashed /\ proc[p].pc = "ut_exists"
    /\ proc' = [proc EXCEPT ![p] =
          IF dir.cfg = 0 THEN UTReturn(p, "False")
          ELSE [proc[p] EXCEPT !.pc = "ut_open_r"]]
    /\ UNCHANGED <<dir, inodes, nextTok, crashed, setup, upVars, call>>

\* Line 48: open(config_path, 'r'); FileNotFoundError (the file is gone
\* since line 43) returns False.
UT_OpenRead(p) ==
    /\ ~crashed /\ proc[p].pc = "ut_open_r"
    /\ proc' = [proc EXCEPT ![p] =
          IF dir.cfg = 0 THEN UTReturn(p, "False")
          ELSE [proc[p] EXCEPT !.pc = "ut_read", !.fd = dir.cfg]]
    /\ UNCHANGED <<dir, inodes, nextTok, crashed, setup, upVars, call>>

\* Lines 49-60: json.load(f) of the file that was opened, and the token set
\* in memory.  A parse error or an unknown account returns False.
UT_Read(p) ==
    /\ ~crashed /\ proc[p].pc = "ut_read"
    /\ LET r == json_load(inodes[proc[p].fd])
       IN  proc' = [proc EXCEPT ![p] =
              IF ~r.ok \/ proc[p].acct \notin DOMAIN r.val
              THEN UTReturn(p, "False")
              ELSE [proc[p] EXCEPT
                      !.pc = "ut_exists2", !.fd = 0,
                      !.buf = json_dump(SetToken(r.val, proc[p].acct,
                                                 proc[p].newTok, proc[p].newExp))]]
    /\ inodes' = Release(inodes, dir, proc', setup)
    /\ UNCHANGED <<dir, nextTok, crashed, setup, upVars, call>>

\* Line 65: config_path.exists() before the backup.
UT_Exists2(p) ==
    /\ ~crashed /\ proc[p].pc = "ut_exists2"
    /\ proc' = [proc EXCEPT ![p].pc = IF dir.cfg # 0 THEN "ut_replace" ELSE "ut_open"]
    /\ UNCHANGED <<dir, inodes, nextTok, crashed, setup, upVars, call>>

\* Line 66: os.replace(config_path, backup_path); FileNotFoundError (the file
\* is gone since line 65) returns False.
UT_Replace(p) ==
    /\ ~crashed /\ proc[p].pc = "ut_replace"
    /\ IF dir.cfg = 0
       THEN /\ proc' = [proc EXCEPT ![p] = UTReturn(p, "False")]
            /\ UNCHANGED <<dir, inodes>>
       ELSE /\ dir' = os_replace(dir)
            /\ proc' = [proc EXCEPT ![p].pc = "ut_open"]
            /\ inodes' = Release(inodes, dir', proc', setup)
    /\ UNCHANGED <<nextTok, crashed, setup, upVars, call>>

\* Line 68: open(config_path, 'w') creates the file or truncates it.
UT_Open(p) ==
    /\ ~crashed /\ proc[p].pc = "ut_open"
    /\ LET ino == IF dir.cfg = 0 THEN FreeInode(dir, proc, setup) ELSE dir.cfg
       IN  /\ dir' = [dir EXCEPT !.cfg = ino]
           /\ proc' = [proc EXCEPT ![p].pc = "ut_write", ![p].fd = ino, ![p].off = 0]
           /\ inodes' = [inodes EXCEPT ![ino] = <<>>]
    /\ UNCHANGED <<nextTok, crashed, setup, upVars, call>>

\* Line 69: json.dump writes the next ChunkSize cells at the file offset; the
\* last write closes the file and update_account_token returns True.
UT_Write(p) ==
    /\ ~crashed /\ proc[p].pc = "ut_write"
    /\ LET me == proc[p]
           n == IF Len(me.buf) - me.off < ChunkSize THEN Len(me.buf) - me.off ELSE ChunkSize
           data == SubSeq(me.buf, me.off + 1, me.off + n)
           written == [inodes EXCEPT ![me.fd] = WriteAt(inodes[me.fd], me.off, data)]
       IN  /\ proc' = [proc EXCEPT ![p] =
                 IF me.off + n = Len(me.buf) THEN UTReturn(p, "True")
                 ELSE [me EXCEPT !.off = me.off + n]]
           /\ inodes' = Release(written, dir, proc', setup)
    /\ UNCHANGED <<dir, nextTok, crashed, setup, upVars, call>>

\* The server process dies: every request stops where it is.
Crash ==
    /\ ~crashed
    /\ crashed' = TRUE
    /\ UNCHANGED <<dir, inodes, proc, nextTok, setup, upVars, call>>

\* setup_account.py, line 14: os.path.exists; without the file the script
\* starts from an empty mapping.
SU_Exists ==
    /\ setup.pc = "su_exists"
    /\ setup' = [setup EXCEPT !.pc = IF dir.cfg = 0 THEN "su_flow" ELSE "su_open_r"]
    /\ UNCHANGED <<dir, inodes, proc, nextTok, crashed, upVars, call>>

\* setup_account.py, line 15: open(..., 'r'); FileNotFoundError ends the
\* script.
SU_OpenRead ==
    /\ setup.pc = "su_open_r"
    /\ setup' = IF dir.cfg = 0 THEN [setup EXCEPT !.pc = "failed"]
                ELSE [setup EXCEPT !.pc = "su_read", !.fd = dir.cfg]
    /\ UNCHANGED <<dir, inodes, proc, nextTok, crashed, upVars, call>>

\* setup_account.py, line 16: json.load(f); JSONDecodeError ends the script.
SU_Read ==
    /\ setup.pc = "su_read"
    /\ LET r == json_load(inodes[setup.fd])
       IN  setup' = IF ~r.ok THEN [setup EXCEPT !.pc = "failed", !.fd = 0]
                    ELSE [setup EXCEPT !.pc = "su_flow", !.fd = 0, !.accounts = r.val]
    /\ inodes' = Release(inodes, dir, proc, setup')
    /\ UNCHANGED <<dir, proc, nextTok, crashed, upVars, call>>

\* setup_account.py, lines 19-32: the OAuth flow returns the credentials and
\* the account's record is set, or the flow raises and the script ends.
SU_Flow ==
    /\ setup.pc = "su_flow"
    /\ \/ setup' = [setup EXCEPT
                      !.pc = "su_open",
                      !.accounts = Put(setup.accounts, setup.acct, setup_account(setup.acct)),
                      !.buf = json_dump(Put(setup.accounts, setup.acct,
                                            setup_account(setup.acct)))]
       \/ setup' = [setup EXCEPT !.pc = "failed"]
    /\ UNCHANGED <<dir, inodes, proc, nextTok, crashed, upVars, call>>

\* setup_account.py, line 36: open(..., 'w') creates the file or truncates
\* it in place; no backup is made.
SU_Open ==
    /\ setup.pc = "su_open"
    /\ LET ino == IF dir.cfg = 0 THEN FreeInode(dir, proc, setup) ELSE dir.cfg
       IN  /\ dir' = [dir EXCEPT !.cfg = ino]
           /\ setup' = [setup EXCEPT !.pc = "su_write", !.fd = ino, !.off = 0]
           /\ inodes' = [inodes EXCEPT ![ino] = <<>>]
    /\ UNCHANGED <<proc, nextTok, crashed, upVars, call>>

\* setup_account.py, line 37: json.dump writes the next ChunkSize cells; the
\* last write closes the file and the script ends.
SU_Write ==
    /\ setup.pc = "su_write"
    /\ LET n == IF Len(setup.buf) - setup.off < ChunkSize
                THEN Len(setup.buf) - setup.off ELSE ChunkSize
           data == SubSeq(setup.buf, setup.off + 1, setup.off + n)
           written == [inodes EXCEPT ![setup.fd] = WriteAt(inodes[setup.fd], setup.off, data)]
       IN  /\ setup' = IF setup.off + n = Len(setup.buf)
                       THEN [setup EXCEPT !.pc = "done", !.fd = 0, !.off = 0, !.buf = <<>>]
                       ELSE [setup EXCEPT !.off = setup.off + n]
           /\ inodes' = Release(written, dir, proc, setup')
    /\ UNCHANGED <<dir, proc, nextTok, crashed, upVars, call>>

NextStore ==
    \/ \E p \in Procs :
         \/ LoadOpen(p)
         \/ LoadAccounts(p)
         \/ CredentialsRefresh(p)
         \/ UT_Exists(p)
         \/ UT_OpenRead(p)
         \/ UT_Read(p)
         \/ UT_Exists2(p)
         \/ UT_Replace(p)
         \/ UT_Open(p)
         \/ UT_Write(p)
    \/ Crash
    \/ SU_Exists
    \/ SU_OpenRead
    \/ SU_Read
    \/ SU_Flow
    \/ SU_Open
    \/ SU_Write

\* SpecStore starts from the store as onboarding left it for acct1 and
\* acct2, each request naming one of its accounts; the onboarding script is
\* run for acct3 meanwhile, or not; the /upload pipeline is at rest.
InitStore ==
    /\ dir = [cfg |-> 1, bak |-> 0]
    /\ inodes = [i \in Inodes |-> IF i = 1 THEN json_dump(InitialAccounts) ELSE <<>>]
    /\ proc \in [Procs -> {InitProc(a) : a \in DOMAIN InitialAccounts}]
    /\ nextTok = 1
    /\ crashed = FALSE
    /\ setup \in {NoSetup, [NoSetup EXCEPT !.pc = "su_exists"]}
    /\ req = NoRequest
    /\ pc = "idle"
    /\ storeFile = [exists |-> TRUE, data |-> json_dump(InitialAccounts)]
    /\ bakFile = [exists |-> FALSE, data |-> <<>>]
    /\ disk = EmptyDict
    /\ accounts = EmptyDict
    /\ temp_files = <<>>
    /\ final_video_path = PyNone
    /\ resp = NoResponse
    /\ hist = NoHistory
    /\ call = NoCall

SpecStore == InitStore /\ [][NextStore]_vars

\* ------------------------------------------------------------ Spec: actions

\* Spec starts with no request and a store that is missing or holds acct1
\* with one of the stored tokens and expiries; SpecStore's files are at rest.
Init ==
    /\ dir = [cfg |-> 1, bak |-> 0]
    /\ inodes = [i \in Inodes |-> <<>>]
    /\ proc = [p \in Procs |-> Done(p, 0, InitProc("acct1"))]
    /\ crashed = FALSE
    /\ setup = NoSetup
    /\ nextTok = 1
    /\ req = NoRequest
    /\ pc = "idle"
    /\ storeFile \in {[exists |-> FALSE, data |-> <<>>]} \cup
          {[exists |-> TRUE, data |-> json_dump(StoreWith(tok, exp))] :
              tok \in StoredTokens, exp \in StoredExpiries}
    /\ bakFile = [exists |-> FALSE, data |-> <<>>]
    /\ disk = EmptyDict
    /\ accounts = EmptyDict
    /\ temp_files = <<>>
    /\ final_video_path = PyNone
    /\ resp = NoResponse
    /\ hist = NoHistory
    /\ call = NoCall

\* The terminal transition without the finally block.
Finish_skip(state, status, body, dk, files, h) ==
    /\ pc' = state
    /\ resp' = [status |-> status, body |-> body]
    /\ temp_files' = files
    /\ disk' = dk
    /\ hist' = h

\* The terminal transition of upload_video: the response is fixed and the
\* finally block (lines 336-338) runs cleanup_temp_files before it is returned.
Finish(state, status, body, dk, files, h) ==
    \E failing \in SUBSET (Range(files) \cap DOMAIN dk) :
        /\ pc' = state
        /\ resp' = [status |-> status, body |-> body]
        /\ temp_files' = files
        /\ disk' = cleanup_temp_files(dk, files, failing)
        /\ hist' = [h EXCEPT !.cleanupRuns = @ + 1, !.unlinkFailed = failing]

\* A request arrives.
Receive ==
    /\ pc = "idle"
    /\ req' \in UploadRequests \cup RefreshRequests \cup CheckRequests
    /\ pc' = "Received"
    /\ UNCHANGED <<fsVars, call, nextTok, storeFile, bakFile, disk, accounts, temp_files,
                   final_video_path, resp, hist>>

\* upload_video, lines 180-204: Received -> Validated, or 400.
Validate ==
    /\ pc = "Received" /\ req.kind = "upload"
    /\ IF ~Truthy(req.content_type) \/ ~IsMultipart(req.content_type)
       THEN Finish("Failed", 400, <<"Invalid content type", "">>, disk, temp_files, hist)
       ELSE IF ~req.has_video
       THEN Finish("Failed", 400, <<"No video file provided", "">>, disk, temp_files, hist)
       ELSE IF req.filename = <<>>
       THEN Finish("Failed", 400, <<"No video file selected", "">>, disk, temp_files, hist)
       ELSE IF ~allowed_file(req.filename)
       THEN Finish("Failed", 400, <<"Invalid file type", "">>, disk, temp_files, hist)
       ELSE IF ~Truthy(req.accountname)
       THEN Finish("Failed", 400, <<"Account name is required", "">>, disk, temp_files, hist)
       ELSE /\ pc' = "Validated"
            /\ UNCHANGED <<disk, temp_files, resp, hist>>
    /\ UNCHANGED <<fsVars, call, nextTok, req, storeFile, bakFile, accounts, final_video_path>>

\* upload_video, lines 206-229: Validated -> Staged.  The store is loaded
\* (500 when it cannot be), the account looked up (404), the temp file
\* created and registered, and the upload saved into it (500 when either
\* fails; a failed creation leaves nothing to register).
Stage ==
    /\ pc = "Validated"
    /\ LET r == load_accounts(storeFile)
       IN  IF ~r.ok
           THEN /\ Finish("Failed", 500, <<"Error loading account configuration", "">>,
                          disk, temp_files, hist)
                /\ UNCHANGED <<accounts, final_video_path>>
           ELSE IF req.accountname \notin DOMAIN r.val
           THEN /\ Finish("Failed", 404, <<"Account not found", "">>, disk, temp_files, hist)
                /\ accounts' = r.val
                /\ UNCHANGED final_video_path
           ELSE /\ accounts' = r.val
                /\ \E io \in {"ok", "create_failed", "save_failed"} :
                     IF io = "create_failed"
                     THEN /\ Finish("Failed", 500, <<"Internal server error", "OSError">>,
                                    disk, temp_files, hist)
                          /\ UNCHANGED final_video_path
                     ELSE IF io = "save_failed"
                     THEN /\ Finish("Failed", 500, <<"Error saving video file", "">>,
                                    Put(disk, TempVideo, 0),
                                    Append(temp_files, TempVideo), hist)
                          /\ UNCHANGED final_video_path
                     ELSE /\ pc' = "Staged"
                          /\ disk' = Put(disk, TempVideo, 1)
                          /\ temp_files' = Append(temp_files, TempVideo)
                          /\ final_video_path' = TempVideo
                          /\ UNCHANGED <<resp, hist>>
    /\ UNCHANGED <<fsVars, call, nextTok, req, storeFile, bakFile>>

\* upload_video, lines 230-247: Staged -> Mixed when a sound is named.  The
\* sound is looked up (404) and mix_audio run (500 when it raises); its
\* output becomes the working video and is registered for cleanup.
Mix ==
    /\ pc = "Staged" /\ Truthy(req.sound_name)
    /\ IF find_sound_file(req.sound_name) = PyNone
       THEN /\ Finish("Failed", 404, <<"Sound file not found", req.sound_name>>,
                      disk, temp_files, hist)
            /\ UNCHANGED final_video_path
       ELSE \E outcome \in MixOutcomes, unlink_ok \in BOOLEAN :
              LET m == mix_audio(disk, TempVideo, find_sound_file(req.sound_name),
                                 outcome, unlink_ok)
                  h == [hist EXCEPT !.mixCalls = @ + 1,
                                    !.mixUnlinkFailed = (m.err = "OSError(unlink)"),
                                    !.mixOutcome = outcome]
              IN  IF ~m.ok
                  THEN /\ Finish("Failed", 500, <<"Error processing audio", m.err>>,
                                 m.disk, temp_files, h)
                       /\ UNCHANGED final_video_path
                  ELSE /\ pc' = "Mixed"
                       /\ disk' = m.disk
                       /\ final_video_path' = m.path
                       /\ temp_files' = Append(temp_files, m.path)
                       /\ hist' = h
                       /\ UNCHANGED resp
    /\ UNCHANGED <<fsVars, call, nextTok, req, storeFile, bakFile, accounts>>

\* get_youtube_service(accounts[accountname], accountname), lines 120-174,
\* called at line 257: -> Authorized, or 500 when it raises (line 327).  A
\* refresh that returns a token persists it with update_account_token.
Authorize ==
    /\ pc = "Mixed" \/ (pc = "Staged" /\ ~Truthy(req.sound_name))
    /\ LET credentials_data == accounts[req.accountname]
           h0 == [hist EXCEPT !.cred = credentials_data]
       IN  IF ~NeedsRefresh(credentials_data)
           THEN /\ pc' = "Authorized"
                /\ hist' = h0
                /\ UNCHANGED <<nextTok, storeFile, bakFile, disk, temp_files, resp>>
           ELSE \E outcome \in RefreshOutcomes :
                  LET issued == outcome.kind \in {"token", "token_expiry"}
                      u == Persist(storeFile, bakFile, req.accountname, outcome,
                                   IssuedTokens[nextTok])
                      h == [h0 EXCEPT !.refreshCalls = @ + 1,
                                      !.refreshOutcome = outcome.kind,
                                      !.refreshMsg = outcome.msg,
                                      !.updateCalls = IF u.res = "-" THEN @ ELSE @ + 1,
                                      !.updateRes = u.res]
                  IN  /\ nextTok' = IF issued THEN nextTok + 1 ELSE nextTok
                      /\ storeFile' = u.store
                      /\ bakFile' = u.bak
                      /\ IF RefreshRaises(outcome)
                         THEN Finish("Failed", 500,
                                     <<"Error uploading to YouTube",
                                       IF HasInvalidGrant(outcome.msg)
                                       THEN "OAuth refresh token is invalid. Please re-authenticate the YouTube account."
                                       ELSE outcome.msg>>,
                                     disk, temp_files, h)
                         ELSE /\ pc' = "Authorized"
                              /\ hist' = h
                              /\ UNCHANGED <<disk, temp_files, resp>>
    /\ UNCHANGED <<fsVars, call, req, accounts, final_video_path>>

\* upload_video, lines 259-291: the title and body are built, the media
\* object opened on the working video and the insert request created.
BeginUpload ==
    /\ pc = "Authorized"
    /\ pc' = "Uploading"
    /\ hist' = [hist EXCEPT !.insertCalls = @ + 1, !.uploaded = final_video_path]
    /\ UNCHANGED <<fsVars, call, nextTok, req, storeFile, bakFile, disk, accounts,
                   temp_files, final_video_path, resp>>

\* What one insert_request.next_chunk() call may do: report progress with
\* no response yet, return the final response with or without an 'id', or
\* raise.
ChunkOutcomes == {"progress", "final", "final_no_id", "HttpError", "Exception"}

\* Lines 294-329: where upload_video goes after a next_chunk() outcome.  The
\* loop goes on while the response is None; response['id'] of a response
\* without an id raises KeyError, which line 327 catches like any error.
AfterChunk_any_final(outcome) ==
    IF outcome = "progress" THEN "Uploading"
    ELSE IF outcome \in {"final", "final_no_id"} THEN "Uploaded" ELSE "Failed"

AfterChunk(outcome) ==
    IF outcome = "progress" THEN "Uploading"
    ELSE IF outcome = "final" THEN "Uploaded" ELSE "Failed"

\* upload_video, lines 293-329: one insert_request.next_chunk() call; the
\* final response with the video's id is answered 200, an error 500.  The
\* remote reports progress at most MaxChunks times.
NextChunk ==
    /\ pc = "Uploading"
    /\ \E outcome \in ChunkOutcomes :
         LET h == [hist EXCEPT !.chunkCalls = @ + 1, !.lastChunk = outcome]
         IN  IF AfterChunk(outcome) = "Uploading"
             THEN /\ hist.chunkCalls < MaxChunks
                  /\ hist' = h
                  /\ UNCHANGED <<pc, disk, temp_files, resp>>
             ELSE IF AfterChunk(outcome) = "Uploaded"
             THEN Finish("Uploaded", 200, <<"Video uploaded successfully", "video_id">>,
                         disk, temp_files, h)
             ELSE Finish("Failed", 500,
                         <<"Error uploading to YouTube",
                           IF outcome = "final_no_id" THEN "KeyError" ELSE outcome>>,
                         disk, temp_files, h)
    /\ UNCHANGED <<fsVars, call, nextTok, req, storeFile, bakFile, accounts, final_video_path>>

\* refresh_token(), lines 380-456: the whole /refresh-token handler.
RefreshToken ==
    /\ pc = "Received" /\ req.kind = "refresh"
    /\ pc' = "Responded"
    /\ LET r == load_accounts(storeFile)
       IN  IF ~Truthy(req.accountname)
           THEN /\ resp' = [status |-> 400, body |-> <<"Account name is required", "">>]
                /\ UNCHANGED <<nextTok, storeFile, bakFile, accounts, hist>>
           ELSE IF ~r.ok
           THEN /\ resp' = [status |-> 500,
                            body |-> <<"Error loading account configuration", "">>]
                /\ UNCHANGED <<nextTok, storeFile, bakFile, accounts, hist>>
           ELSE IF req.accountname \notin DOMAIN r.val
           THEN /\ resp' = [status |-> 404, body |-> <<"Account not found", "">>]
                /\ accounts' = r.val
                /\ UNCHANGED <<nextTok, storeFile, bakFile, hist>>
           ELSE \E outcome \in RefreshOutcomes :
                  LET issued == outcome.kind \in {"token", "token_expiry"}
                      u == Persist(storeFile, bakFile, req.accountname, outcome,
                                   IssuedTokens[nextTok])
                  IN  /\ accounts' = r.val
                      /\ nextTok' = IF issued THEN nextTok + 1 ELSE nextTok
                      /\ storeFile' = u.store
                      /\ bakFile' = u.bak
                      /\ hist' = [hist EXCEPT
                                    !.cred = r.val[req.accountname],
                                    !.refreshCalls = @ + 1,
                                    !.refreshOutcome = outcome.kind,
                                      !.refreshMsg = outcome.msg,
                                    !.updateCalls = IF u.res = "-" THEN @ ELSE @ + 1,
                                    !.updateRes = u.res]
                      /\ resp' =
                           IF issued
                           THEN [status |-> 200,
                                 body |-> <<"Token refreshed successfully",
                                            IF outcome.kind = "token_expiry"
                                            THEN isoformat(Now + TokenLifetime)
                                            ELSE "unknown">>]
                           ELSE IF outcome.kind = "no_token"
                           THEN [status |-> 500,
                                 body |-> <<"No token received after refresh", "">>]
                           ELSE IF HasInvalidGrant(outcome.msg)
                           THEN [status |-> 401,
                                 body |-> <<"OAuth refresh token is invalid or revoked",
                                            "You need to re-authenticate the YouTube account.">>]
                           ELSE [status |-> 500,
                                 body |-> <<"Error refreshing token", outcome.msg>>]
    /\ UNCHANGED <<fsVars, call, req, disk, temp_files, final_video_path>>

\* check_account(), lines 340-378: the whole /check-account handler.  It
\* reads accounts.json and answers; nothing is written.
CheckAccount ==
    /\ pc = "Received" /\ req.kind = "check"
    /\ pc' = "Responded"
    /\ LET r == check_account(storeFile, req.accountname)
       IN  resp' = [status |-> r.status,
                    body |-> <<IF r.status = 200 THEN "success" ELSE r.error, "">>,
                    account_info |-> r.account_info]
    /\ UNCHANGED <<fsVars, call, nextTok, req, storeFile, bakFile, disk, accounts,
                   temp_files, final_video_path, hist>>

Next ==
    \/ Receive
    \/ Validate
    \/ Stage
    \/ Mix
    \/ Authorize
    \/ BeginUpload
    \/ NextChunk
    \/ RefreshToken
    \/ CheckAccount

Spec == Init /\ [][Next]_vars

\* The steps of a request handler.  A handler that was entered runs on: the
\* server does not stop between two statements of upload_video.
Handle ==
    \/ Validate
    \/ Stage
    \/ Mix
    \/ Authorize
    \/ BeginUpload
    \/ NextChunk
    \/ RefreshToken
    \/ CheckAccount

SpecLive == Init /\ [][Next]_vars /\ WF_vars(Handle)

\* ------------------------------------------------------------ SpecCalls

\* The credential records accounts.json may hold for acct1: the keys
\* setup_account.py writes, a token that is null, empty, the 'None' text or
\* a token, and the keys added later (token_expiry, channel_title) or not.
CredentialRecords ==
    {[k \in {"client_id", "client_secret", "refresh_token", "token", "token_uri",
              "scopes"} \cup more |->
        CASE k = "client_id" -> cid
          [] k = "client_secret" -> "secret"
          [] k = "refresh_token" -> rt
          [] k = "token" -> tok
          [] k = "token_uri" -> "https://oauth2.googleapis.com/token"
          [] k = "scopes" -> "upload"
          [] k = "token_expiry" -> isoformat(Now)
          [] k = "channel_title" -> "My Channel"] :
        cid \in {"id", "id2"}, rt \in {"", "refresh", "refresh2"},
        tok \in {PyNone, "", "None", "tok0", "tok9"},
        more \in SUBSET {"token_expiry", "channel_title"}}

\* accounts.json before a call: absent, cut short, as onboarding left it for
\* two accounts, the same after a refresh stored acct1's token_expiry, or
\* holding one of the records for acct1.
CallStores ==
    {[exists |-> FALSE, data |-> <<>>],
     [exists |-> TRUE, data |-> SubSeq(json_dump(InitialAccounts), 1, 5)],
     [exists |-> TRUE, data |-> json_dump(InitialAccounts)],
     [exists |-> TRUE, data |-> json_dump(StoreWith("tok0", isoformat(Now - 1)))]}
    \cup {[exists |-> TRUE, data |-> json_dump([n \in {"acct1"} |-> rec])] :
            rec \in CredentialRecords}

\* SpecCalls starts with no call made, accounts.json in one of these states,
\* a backup from an earlier update present or not, and a staged video on
\* disk or not.
InitCalls ==
    /\ dir = [cfg |-> 1, bak |-> 0]
    /\ inodes = [i \in Inodes |-> <<>>]
    /\ proc = [p \in Procs |-> Done(p, 0, InitProc("acct1"))]
    /\ crashed = FALSE
    /\ setup = NoSetup
    /\ nextTok = 1
    /\ req = NoRequest
    /\ pc = "idle"
    /\ storeFile \in CallStores
    /\ bakFile \in {[exists |-> FALSE, data |-> <<>>],
                    [exists |-> TRUE, data |-> json_dump(StoreWith("tok0", PyNone))]}
    /\ disk \in {EmptyDict, Put(EmptyDict, TempVideo, 1)}
    /\ accounts = EmptyDict
    /\ temp_files = <<>>
    /\ final_video_path = PyNone
    /\ resp = NoResponse
    /\ hist = NoHistory
    /\ call = NoCall

\* update_account_token(account_name, token, expiry) is called
\* (utils.py 39-76); the files before the call are kept in the call record.
CallUpdateAccountToken ==
    /\ call = NoCall
    /\ \E account_name \in {"acct1", "acct2", "ghost"},
          expiry \in {PyNone, "", isoformat(Now + TokenLifetime)} :
         LET u == update_account_token(storeFile, bakFile, account_name,
                                       IssuedTokens[nextTok], expiry)
         IN  /\ storeFile' = u.store
             /\ bakFile' = u.bak
             /\ call' = [op |-> "update_account_token",
                         args |-> <<account_name, IssuedTokens[nextTok], expiry>>,
                         ret |-> u.res, store |-> storeFile, bak |-> bakFile]
    /\ UNCHANGED <<fsVars, nextTok, req, pc, disk, accounts, temp_files,
                   final_video_path, resp, hist>>

\* GET /check-account?accountname=... is handled (main.py 340-378).
CallCheckAccount ==
    /\ call = NoCall
    /\ \E accountname \in {PyNone, "", "ghost", "acct1"} :
         call' = [op |-> "check_account", args |-> <<accountname>>,
                  ret |-> check_account(storeFile, accountname)]
    /\ UNCHANGED <<fsVars, nextTok, req, pc, storeFile, bakFile, disk, accounts,
                   temp_files, final_video_path, resp, hist>>

\* AudioProcessor().mix_audio(video_path, sound_path) is called
\* (audio_processor.py 16-74) on the staged video and a sound file.
CallMixAudio ==
    /\ call = NoCall
    /\ \E sound_path \in {"/app/sounds/Ding.mp3", "/app/sounds/gone.mp3"},
          outcome \in MixOutcomes, unlink_ok \in BOOLEAN :
         LET m == mix_audio(disk, TempVideo, sound_path, outcome, unlink_ok)
         IN  /\ disk' = m.disk
             /\ call' = [op |-> "mix_audio", args |-> <<TempVideo, sound_path>>,
                         ret |-> [ok |-> m.ok, err |-> m.err, path |-> m.path],
                         video |-> TempVideo \in DOMAIN disk,
                         sound |-> sound_path \in SoundPaths,
                         tool |-> outcome]
    /\ UNCHANGED <<fsVars, nextTok, req, pc, storeFile, bakFile, accounts, temp_files,
                   final_video_path, resp, hist>>

NextCalls ==
    \/ CallUpdateAccountToken
    \/ CallMixAudio
    \/ CallCheckAccount

SpecCalls == InitCalls /\ [][NextCalls]_vars

\* ------------------------------------------------------------ clean_title

\* A str is the sequence of its characters.
Str(word) ==
    CASE word = " #Shorts" -> <<" ", "#", "S", "h", "o", "r", "t", "s">>
      [] word = "Hello <world>" ->
            <<"H", "e", "l", "l", "o", " ", "<", "w", "o", "r", "l", "d", ">">>
      [] word = "Hello world" ->
            <<"H", "e", "l", "l", "o", " ", "w", "o", "r", "l", "d">>
      [] word = "fun" -> <<"f", "u", "n">>
      [] word = "Fun " -> <<"F", "u", "n", " ">>
      [] word = "Fun" -> <<"F", "u", "n">>

\* The characters line 38 removes (the backslash and the three quotes are
\* written by name).
ForbiddenChars == {"<", ">", ":", "{", "}", "[", "]", "|", "backslash", "^", "~",
                   "dquote", "squote", "backtick"}

\* The characters str.split() and str.strip() take for whitespace.
Whitespace == {" ", "tab", "newline"}

\* re.sub(..., '', title), line 38: the title without those characters.
StripForbidden(title) == SelectSeq(title, LAMBDA ch : ch \notin ForbiddenChars)

\* str.lstrip(): without its leading whitespace.
RECURSIVE LStrip(_)
LStrip(str) ==
    IF str # <<>> /\ Head(str) \in Whitespace THEN LStrip(Tail(str)) ELSE str

\* str.rstrip(): without its trailing whitespace.
RECURSIVE RStrip(_)
RStrip(str) ==
    IF str # <<>> /\ str[Len(str)] \in Whitespace
    THEN RStrip(SubSeq(str, 1, Len(str) - 1)) ELSE str

\* str.strip().
Strip(str) == LStrip(RStrip(str))

\* str.lstrip('#'): without its leading '#' characters.
RECURSIVE LStripHash(_)
LStripHash(str) ==
    IF str # <<>> /\ Head(str) = "#" THEN LStripHash(Tail(str)) ELSE str

\* str.split(): the words of str, its maximal runs of non-whitespace; word
\* is the word being read.
RECURSIVE SplitFrom(_, _)
SplitFrom(str, word) ==
    IF str = <<>> THEN (IF word = <<>> THEN <<>> ELSE <<word>>)
    ELSE IF Head(str) \in Whitespace
    THEN (IF word = <<>> THEN <<>> ELSE <<word>>) \o SplitFrom(Tail(str), <<>>)
    ELSE SplitFrom(Tail(str), Append(word, Head(str)))

Split(str) == SplitFrom(str, <<>>)

\* ' '.join(words).
RECURSIVE Join(_)
Join(words) ==
    IF words = <<>> THEN <<>>
    ELSE IF Len(words) = 1 THEN words[1]
    ELSE words[1] \o <<" ">> \o Join(Tail(words))

\* Line 46: [tag.strip().lstrip('#') for tag in hashtags if tag.strip()].
RECURSIVE CleanedHashtags(_)
CleanedHashtags(hashtags) ==
    IF hashtags = <<>> THEN <<>>
    ELSE (IF Strip(Head(hashtags)) # <<>>
          THEN <<LStripHash(Strip(Head(hashtags)))>> ELSE <<>>)
         \o CleanedHashtags(Tail(hashtags))

\* f'#{tag}' for each tag (line 47).
Hashed(tags) == [n \in 1..Len(tags) |-> <<"#">> \o tags[n]]

\* Lines 44-50: the hashtag suffix.  The tags are used when the list is not
\* empty and its first element is not the empty string.
hashtag_text(hashtags) ==
    IF hashtags # <<>> /\ hashtags[1] # <<>>
    THEN <<" ">> \o Join(Hashed(CleanedHashtags(hashtags))) \o Str(" #Shorts")
    ELSE Str(" #Shorts")

\* The truncation cutting at available_length characters, inside a word or not.
Truncated_midword(words, truncated, available_length) ==
    SubSeq(Join(words), 1, IF available_length > 0 THEN available_length ELSE 0)

\* Lines 60-65: the words accumulated, each followed by a space, while
\* len(truncated) + len(word) + 1 <= available_length.
RECURSIVE Truncated(_, _, _)
Truncated(words, truncated, available_length) ==
    IF words = <<>> THEN truncated
    ELSE IF Len(truncated) + Len(Head(words)) + 1 <= available_length
    THEN Truncated(Tail(words), truncated \o Head(words) \o <<" ">>, available_length)
    ELSE truncated

\* Lines 38-41 and 56: the cleaned title.
CleanedTitle(title) == Strip(Join(Split(StripForbidden(title))))

\* The title part never truncated.
TitlePart_whole(title, hashtags, max_length) == CleanedTitle(title)

\* Lines 53-66: the title part of the result.
TitlePart(title, hashtags, max_length) ==
    LET available_length == max_length - Len(hashtag_text(hashtags))
        clean == CleanedTitle(title)
    IN  IF Len(clean) > available_length
        THEN Strip(Truncated(Split(clean), <<>>, available_length))
        ELSE clean

\* clean_title cutting its result at max_length characters.
clean_title_cut(title, hashtags, max_length) ==
    IF Len(TitlePart(title, hashtags, max_length) \o hashtag_text(hashtags)) > max_length
    THEN SubSeq(TitlePart(title, hashtags, max_length) \o hashtag_text(hashtags), 1, max_length)
    ELSE TitlePart(title, hashtags, max_length) \o hashtag_text(hashtags)

\* clean_title(title, hashtags, max_length), main.py 36-69.
clean_title(title, hashtags, max_length) ==
    TitlePart(title, hashtags, max_length) \o hashtag_text(hashtags)

\* ------------------------------------------------------------ SpecTitle

\* The strings of at most n characters over an alphabet.
RECURSIVE StringsUpTo(_, _)
StringsUpTo(alphabet, n) ==
    IF n = 0 THEN {<<>>}
    ELSE LET shorter == StringsUpTo(alphabet, n - 1)
         IN  shorter \cup {Append(str, ch) : str \in shorter, ch \in alphabet}

\* The lists of at most n of these elements.
RECURSIVE ListsUpTo(_, _)
ListsUpTo(elements, n) ==
    IF n = 0 THEN {<<>>}
    ELSE LET shorter == ListsUpTo(elements, n - 1)
         IN  shorter \cup {Append(l, e) : l \in shorter, e \in elements}

\* The raw titles, hashtag lists and max_length values clean_title is
\* called with; the last of each is the spec's example.
TitleInputs == StringsUpTo({"a", " ", "<"}, MaxTitleLen) \cup {Str("Hello <world>")}
TagInputs == {<<>>, <<" ">>, <<"#", "x">>, <<"X", " ">>}
HashtagInputs ==
    ListsUpTo(TagInputs, MaxTags) \cup {<<Str("fun"), Str("Fun ")>>}
MaxLengthInputs == {8, 10, 13, 100}

\* SpecTitle starts with the arguments of one clean_title call.
InitTitle ==
    /\ dir = [cfg |-> 1, bak |-> 0]
    /\ inodes = [i \in Inodes |-> <<>>]
    /\ proc = [p \in Procs |-> Done(p, 0, InitProc("acct1"))]
    /\ crashed = FALSE
    /\ setup = NoSetup
    /\ nextTok = 1
    /\ req = NoRequest
    /\ pc = "idle"
    /\ storeFile = [exists |-> FALSE, data |-> <<>>]
    /\ bakFile = [exists |-> FALSE, data |-> <<>>]
    /\ disk = EmptyDict
    /\ accounts = EmptyDict
    /\ temp_files = <<>>
    /\ final_video_path = PyNone
    /\ resp = NoResponse
    /\ hist = NoHistory
    /\ call \in [op : {"clean_title"}, title : TitleInputs, hashtags : HashtagInputs,
                 max_length : MaxLengthInputs, returned : {FALSE}, ret : {<<>>}]

\* clean_title(title, hashtags, max_length) runs and returns.
CallCleanTitle ==
    /\ call.op = "clean_title" /\ ~call.returned
    /\ call' = [call EXCEPT !.returned = TRUE,
                            !.ret = clean_title(call.title, call.hashtags, call.max_length)]
    /\ UNCHANGED <<fsVars, nextTok, req, pc, storeFile, bakFile, disk, accounts,
                   temp_files, final_video_path, resp, hist>>

NextTitle ==
    \/ CallCleanTitle

SpecTitle == InitTitle /\ [][NextTitle]_vars

\* ------------------------------------------------------------ store claims

\* The onboarding script is not run: the store is used by the requests alone.
SetupOff == setup.pc = "off"

AllDone == SetupOff /\ \A p \in Procs : proc[p].pc = "done"

\* accounts.json and accounts.json.bak as json.load reads them now.
StoreLoad == IF dir.cfg = 0 THEN JsonBad ELSE json_load(FileCells(dir.cfg))
BakLoad == IF dir.bak = 0 THEN JsonBad ELSE json_load(FileCells(dir.bak))

\* The token stored for account a.
Stored(a) == Get(Get(StoreLoad.val, a), "token")

\* C2: a load() by one request while another runs update_token never fails
\* with ConfigMissing or ConfigCorrupt (it sees the complete previous or the
\* complete new mapping).
C2_LoadNeverFails ==
    SetupOff => \A p \in Procs : proc[p].loadRes \notin {"ConfigMissing", "ConfigCorrupt"}

\* The mapping request p's update_account_token call is writing.
NewMapping(p) ==
    SetToken(proc[p].prev.val, proc[p].acct, proc[p].newTok, proc[p].newExp)

\* The mapping from before p's call is still on disk: accounts.json holds it
\* or the new mapping complete, or accounts.json.bak holds it complete.
Preserved(p) ==
    \/ StoreLoad.ok /\ StoreLoad.val = proc[p].prev.val
    \/ StoreLoad.ok /\ StoreLoad.val = NewMapping(p)
    \/ BakLoad.ok /\ BakLoad.val = proc[p].prev.val

\* C3: when the server crashes at any step of an update_token call that no
\* other update_token call overlapped, and that started from a valid store,
\* the previous mapping is preserved: accounts.json holds the complete
\* previous or the complete new mapping, or accounts.json.bak holds the
\* complete previous mapping.
C3_CrashPreservesPrevious ==
    (crashed /\ SetupOff) =>
        \A p \in Procs :
            (proc[p].pc \in UTpcs /\ ~proc[p].overlap /\ proc[p].prev.ok)
                => Preserved(p)

\* C3's case: the crash came part-way through the write of a call running
\* alone, so accounts.json is partial and only the backup holds the mapping.
C3_Witness ==
    /\ crashed /\ SetupOff
    /\ \E p \in Procs :
          /\ proc[p].pc = "ut_write" /\ proc[p].off > 0
          /\ ~proc[p].overlap /\ proc[p].prev.ok
          /\ dir.cfg # 0 /\ ~StoreLoad.ok
          /\ BakLoad.ok /\ BakLoad.val = proc[p].prev.val

\* Account a is in the store with its client_id, client_secret and
\* refresh_token as they were.
Intact(a) ==
    /\ a \in DOMAIN StoreLoad.val
    /\ \A k \in {"client_id", "client_secret", "refresh_token"} :
          k \in DOMAIN StoreLoad.val[a] /\ StoreLoad.val[a][k] = InitialAccounts[a][k]

\* C4: once all concurrent update_token calls have returned (no crash),
\* accounts.json exists and holds a well-formed mapping with every account
\* and its client_id, client_secret and refresh_token intact.
C4_NeverCorrupt ==
    (AllDone /\ ~crashed) =>
        (StoreLoad.ok /\ \A a \in DOMAIN InitialAccounts : Intact(a))

\* C5: when two requests refreshed different accounts and both
\* update_token calls returned True, the final store (when well-formed)
\* holds both new tokens.
C5_DifferentAccountsIndependent ==
    (AllDone /\ ~crashed /\ StoreLoad.ok) =>
        \A p, q \in Procs :
            (/\ proc[p].acct # proc[q].acct
             /\ proc[p].utRes = "True" /\ proc[q].utRes = "True")
                => (/\ Stored(proc[p].acct) = proc[p].newTok
                    /\ Stored(proc[q].acct) = proc[q].newTok)

\* The serial number of an issued token (0: not issued by the endpoint).
TokenSerial(t) ==
    IF \E n \in 1..Len(IssuedTokens) : IssuedTokens[n] = t
    THEN CHOOSE n \in 1..Len(IssuedTokens) : IssuedTokens[n] = t
    ELSE 0

\* The requests for account a whose update_token call returned True.
Succeeded(a) == {p \in Procs : proc[p].acct = a /\ proc[p].utRes = "True"}

\* C6: nothing serializes the requests of one account: when every
\* update_token call that returned True was for account a, the token finally
\* stored for a (in a well-formed store) is the token one of those calls
\* wrote, which need not be the one issued by the most recent refresh
\* (C6_Witness is that lost update).
C6_StoredTokenIsSomeWriters ==
    (AllDone /\ ~crashed /\ StoreLoad.ok) =>
        \A a \in DOMAIN InitialAccounts :
            (/\ Succeeded(a) # {}
             /\ \A p \in Procs : proc[p].utRes = "True" => proc[p].acct = a)
                => (/\ a \in DOMAIN StoreLoad.val
                    /\ Stored(a) \in {proc[p].newTok : p \in Succeeded(a)})

\* C6's case, the lost update: two requests for one account both returned
\* True from update_token and the token stored is the older of the two.
C6_Witness ==
    /\ AllDone /\ ~crashed /\ StoreLoad.ok
    /\ \E p, q \in Procs :
          /\ p # q /\ proc[p].acct = proc[q].acct
          /\ proc[p].utRes = "True" /\ proc[q].utRes = "True"
          /\ TokenSerial(proc[p].newTok) < TokenSerial(proc[q].newTok)
          /\ Stored(proc[p].acct) = proc[p].newTok

\* ------------------------------------------------------------ upload claims

Terminal == pc \in {"Uploaded", "Failed"}

\* C1 as stated: once /upload has returned its response, neither the staged
\* upload nor the mixer output remains on disk.
C1_NoTempRemains ==
    Terminal => \A f \in {TempVideo, OutputPath} : f \notin DOMAIN disk

\* C1 amended: once /upload has returned its response, a temp file of the
\* request remains on disk only if the os.unlink that was to delete it
\* raised (in cleanup_temp_files, where it is logged, or in the mixer's
\* error handler); cleanup has run once.
C1_TempRemainsOnlyIfUnlinkFailed ==
    Terminal =>
        /\ hist.cleanupRuns = 1
        /\ \A f \in DOMAIN disk :
              \/ f \in hist.unlinkFailed
              \/ f = OutputPath /\ hist.mixUnlinkFailed

\* C1's case: a request that staged the upload and mixed it has returned and
\* both temp files are gone.
C1_Witness ==
    /\ Terminal /\ resp.status # 0
    /\ temp_files = <<TempVideo, OutputPath>>
    /\ DOMAIN disk = {}

\* The stored token is missing, empty or the 'None' text.
TokenAbsent(credentials_data) ==
    Get(credentials_data, "token") \in {PyNone, "", "None"}

\* The text of a stored token_expiry read back as a time (0: not a time).
fromisoformat(s) ==
    IF \E t \in 1..Len(IsoTable) : IsoTable[t] = s
    THEN CHOOSE t \in 1..Len(IsoTable) : IsoTable[t] = s
    ELSE 0

\* The stored token_expiry has passed.
StoredExpired(credentials_data) ==
    /\ "token_expiry" \in DOMAIN credentials_data
    /\ fromisoformat(credentials_data["token_expiry"]) # 0
    /\ Now >= fromisoformat(credentials_data["token_expiry"])

\* C7: on /upload the refresher calls the token endpoint before the token is
\* used if and only if the stored token is absent or expired by its stored
\* token_expiry.
C7_RefreshIffAbsentOrExpired ==
    (req.kind = "upload" /\ DOMAIN hist.cred # {}) =>
        ((hist.refreshCalls > 0) <=>
            (TokenAbsent(hist.cred) \/ StoredExpired(hist.cred)))

\* C8: a refresh that succeeds without a token fails the refresher: /upload
\* aborts to Failed without the remote upload call, /refresh-token answers
\* with a failure.
C8_NoTokenIsRefreshFailed ==
    hist.refreshOutcome = "no_token" =>
        /\ req.kind = "upload" => (pc = "Failed" /\ hist.insertCalls = 0)
        /\ req.kind = "refresh" => resp.status >= 400

\* C9: on /upload and /refresh-token a refresh error whose message holds an
\* invalid-grant indicator is answered 401, never 500.
C9_InvalidGrantIs401 ==
    (/\ pc \in {"Uploaded", "Failed", "Responded"}
     /\ hist.refreshOutcome = "error" /\ HasInvalidGrant(hist.refreshMsg))
        => resp.status = 401

\* C10: when the refresher fails on /upload (the refresh call raised, with
\* or without an invalid-grant indicator) the request is Failed with an error
\* response, no insert or next_chunk call is made and the refresh was called
\* once.
C10_RefreshFailureAborts ==
    (req.kind = "upload" /\ hist.refreshOutcome = "error") =>
        /\ pc = "Failed" /\ resp.status >= 400
        /\ hist.insertCalls = 0 /\ hist.chunkCalls = 0
        /\ hist.refreshCalls = 1

\* C10's case: an /upload request whose refresh raised has ended.
C10_Witness ==
    /\ req.kind = "upload" /\ hist.refreshOutcome = "error"
    /\ pc = "Failed" /\ temp_files # <<>>

\* The request breaks a validation rule of /upload: the content type is not
\* multipart, the video part is missing or has no filename, the extension
\* (compared without case) is not mp4 or mov, or the account name is missing.
ViolatesValidation(r) ==
    \/ r.content_type \in {PyNone, "application/json"}
    \/ ~r.has_video
    \/ Len(r.filename) = 0
    \/ Len(r.filename) = 1
    \/ Len(r.filename) >= 2 /\ r.filename[Len(r.filename)] \notin {"mp4", "mov", "MP4", "MOV"}
    \/ r.accountname = PyNone

\* Nothing was allocated and no collaborator was invoked.
NothingStarted ==
    /\ temp_files = <<>> /\ DOMAIN disk = {}
    /\ hist.mixCalls = 0 /\ hist.refreshCalls = 0
    /\ hist.insertCalls = 0 /\ hist.chunkCalls = 0

\* C12: an /upload request that violates validation ends with 400, and a
\* valid one naming an account absent from the (readable) store ends with
\* 404; in both cases no temp file is ever allocated and the mixer, the
\* refresher and the remote upload are never invoked.
C12_RejectedBeforeAllocation ==
    req.kind = "upload" =>
        /\ ViolatesValidation(req) =>
              /\ NothingStarted
              /\ pc = "Received" \/ (pc = "Failed" /\ resp.status = 400)
        /\ (/\ ~ViolatesValidation(req)
            /\ load_accounts(storeFile).ok
            /\ req.accountname \notin DOMAIN load_accounts(storeFile).val) =>
              /\ NothingStarted
              /\ pc \in {"Received", "Validated"} \/ (pc = "Failed" /\ resp.status = 404)

\* C12's case: a request with a valid video for an account the store does
\* not hold was answered.
C12_Witness ==
    /\ req.kind = "upload" /\ ~ViolatesValidation(req)
    /\ req.accountname = "ghost" /\ req.filename = <<"clip", "MOV">>
    /\ pc = "Failed" /\ resp.status = 404
    /\ hist.cleanupRuns = 1

\* The request reached Staged and went on from there.
PastStaged == req.kind = "upload" /\ final_video_path # PyNone /\ pc # "Staged"

\* The sound name matches a file of the sound library (quotes stripped,
\* compared without case against the base names).
Resolves(sound_name) ==
    \E f \in SoundFiles : Lower(f[1]) = Lower(StripQuotes(sound_name))

\* What C13 says of the file handed to the remote upload: the staged file
\* when no sound was named, the mixer's output otherwise, with the staged
\* file still registered for cleanup.
HandedFileIsRight ==
    hist.insertCalls > 0 =>
        IF ~Truthy(req.sound_name)
        THEN hist.uploaded = TempVideo /\ hist.mixCalls = 0
        ELSE /\ hist.uploaded = OutputPath
             /\ temp_files = <<TempVideo, OutputPath>>

\* C13 as stated: the mixer is invoked if and only if a sound_name is
\* supplied, and the file handed to the remote upload is the staged file
\* without a sound_name and the mixer's output with one.
C13_MixerIffSoundName ==
    PastStaged =>
        /\ (hist.mixCalls > 0) <=> Truthy(req.sound_name)
        /\ HandedFileIsRight

\* C13 amended: the mixer is invoked (once) if and only if a non-empty
\* sound_name is supplied and it resolves to a file of the sound library; a
\* name that does not resolve ends the request with 404 without a mixer
\* call.  The file handed to the remote upload is the staged file without a
\* sound_name and the mixer's output after a successful mix, the staged
\* file staying registered for cleanup.
C13_MixerIffSoundResolves ==
    PastStaged =>
        /\ (hist.mixCalls > 0) <=> (Truthy(req.sound_name) /\ Resolves(req.sound_name))
        /\ hist.mixCalls <= 1
        /\ (Truthy(req.sound_name) /\ ~Resolves(req.sound_name))
              => (pc = "Failed" /\ resp.status = 404)
        /\ HandedFileIsRight

\* C13's case: a request naming a sound of the library was mixed and its
\* mixer output uploaded.
C13_Witness ==
    /\ PastStaged /\ pc = "Uploaded"
    /\ req.sound_name = "'ding'" /\ hist.mixCalls = 1
    /\ hist.uploaded = OutputPath

\* C14: when every external call returns and the remote upload ends with a
\* final response or an error, every /upload request that was received
\* reaches Uploaded or Failed with its response set and cleanup run once;
\* and Uploaded, a 200 response with the video_id, is reached only after
\* next_chunk returned a final response that carries an id.
C14_EndsUploadedOrFailed ==
    /\ (req.kind = "upload" /\ pc = "Received")
          ~> (Terminal /\ resp.status # 0 /\ hist.cleanupRuns = 1)
    /\ [](pc = "Uploaded" =>
            /\ resp = [status |-> 200,
                       body |-> <<"Video uploaded successfully", "video_id">>]
            /\ hist.chunkCalls >= 1 /\ hist.lastChunk = "final")

\* C14's case: the remote reported progress, then returned the final
\* response, and the request ended Uploaded.
C14_Witness ==
    /\ pc = "Uploaded" /\ hist.chunkCalls >= 2 /\ hist.lastChunk = "final"
    /\ hist.cleanupRuns = 1

\* ------------------------------------------------------------ call claims

\* C11: update_account_token called with an account name that is not in the
\* store returns False and leaves accounts.json byte-for-byte unchanged: it
\* is not renamed to accounts.json.bak (the backup stays as it was) and
\* nothing is written.
C11_UnknownAccountLeavesStore ==
    (/\ call.op = "update_account_token"
     /\ call.store.exists /\ json_load(call.store.data).ok
     /\ call.args[1] \notin DOMAIN json_load(call.store.data).val)
        => (/\ call.ret = "False"
            /\ storeFile = call.store
            /\ bakFile = call.bak)

\* C11's case: the call named an account a well-formed store does not hold,
\* and returned.
C11_Witness ==
    /\ call.op = "update_account_token"
    /\ call.args[1] = "ghost"
    /\ call.store.exists /\ json_load(call.store.data).ok
    /\ "acct1" \in DOMAIN json_load(call.store.data).val
    /\ call.ret = "False"

\* C15 as stated: mix_audio returns a path only when the tool exited zero
\* and the output exists with a size above zero, and whenever it fails no
\* output file remains at the output path.
C15_FailedMixLeavesNoOutput ==
    call.op = "mix_audio" =>
        /\ call.ret.ok =>
              /\ call.tool = "ok" /\ call.ret.path = OutputPath
              /\ OutputPath \in DOMAIN disk /\ disk[OutputPath] > 0
        /\ ~call.ret.ok => OutputPath \notin DOMAIN disk

\* C15 amended: mix_audio returns a path only when both inputs exist, the
\* tool exited zero and the output exists with a size above zero; whenever
\* it fails, an output file remains at the output path only if the
\* os.unlink of the error handler itself raised, and then that error is the
\* one that propagates.  A missing input fails before the tool is run.
C15_OutputRemainsOnlyIfUnlinkRaised ==
    call.op = "mix_audio" =>
        /\ call.ret.ok =>
              /\ call.video /\ call.sound /\ call.tool = "ok"
              /\ call.ret.path = OutputPath
              /\ OutputPath \in DOMAIN disk /\ disk[OutputPath] > 0
        /\ ~call.ret.ok =>
              ((OutputPath \in DOMAIN disk) <=> (call.ret.err = "OSError(unlink)"))
        /\ ~(call.video /\ call.sound) => call.ret.err = "FileNotFoundError"

\* C15's case: the tool left a partial output and failed; mix_audio deleted
\* the output and raised.
C15_Witness ==
    /\ call.op = "mix_audio" /\ call.tool = "tool_failed_partial"
    /\ call.ret.err = "RuntimeError"
    /\ OutputPath \notin DOMAIN disk /\ TempVideo \in DOMAIN disk

\* The secret keys of a credential record.
SecretKeys == {"token", "refresh_token", "client_id", "client_secret"}

\* Two credential records that differ only in the values of secret keys:
\* the same keys, the same values of the other keys, and each secret null or
\* empty in both or in neither.
SameButSecretValues(d1, d2) ==
    /\ DOMAIN d1 = DOMAIN d2
    /\ \A k \in DOMAIN d1 :
          IF k \in SecretKeys THEN Truthy(d1[k]) = Truthy(d2[k]) ELSE d1[k] = d2[k]

\* Two stores that differ only in the values of secrets.
StoresSameButSecrets(s1, s2) ==
    \/ s1 = s2
    \/ /\ load_accounts(s1).ok /\ load_accounts(s2).ok
       /\ DOMAIN load_accounts(s1).val = DOMAIN load_accounts(s2).val
       /\ \A a \in DOMAIN load_accounts(s1).val :
             SameButSecretValues(load_accounts(s1).val[a], load_accounts(s2).val[a])

\* C16: the /check-account response holds no secret value: on any store
\* that differs from the one read only in the values (not the presence or
\* emptiness) of token, refresh_token, client_id and client_secret, the
\* response for the same account name is the same.
C16_CheckAccountHidesSecrets ==
    call.op = "check_account" =>
        \A other \in CallStores :
            StoresSameButSecrets(storeFile, other)
                => check_account(other, call.args[1]) = call.ret

\* C16's case: an account with a token was described, and another store
\* holds a different token, refresh token and client id for it.
C16_Witness ==
    /\ call.op = "check_account" /\ call.ret.status = 200
    /\ call.ret.account_info.has_token
    /\ \E other \in CallStores :
          /\ StoresSameButSecrets(storeFile, other)
          /\ load_accounts(other).val["acct1"]["token"]
                # load_accounts(storeFile).val["acct1"]["token"]
          /\ load_accounts(other).val["acct1"]["refresh_token"]
                # load_accounts(storeFile).val["acct1"]["refresh_token"]
          /\ load_accounts(other).val["acct1"]["client_id"]
                # load_accounts(storeFile).val["acct1"]["client_id"]

\* ------------------------------------------------------------ title claims

\* str ends with tail.
EndsWith(str, tail) ==
    /\ Len(str) >= Len(tail)
    /\ SubSeq(str, Len(str) - Len(tail) + 1, Len(str)) = tail

\* The hashtag suffix of the call, and the space it leaves for the title.
CallSuffix == hashtag_text(call.hashtags)
CallAvailable == call.max_length - Len(CallSuffix)

\* The words of the cleaned title of the call (forbidden characters
\* stripped, split at whitespace).
CallWords == Split(StripForbidden(call.title))

\* The call truncated the title.
CallTruncates == Len(Join(CallWords)) > CallAvailable

\* C17: for every raw title and hashtag list whose hashtag suffix is no
\* longer than max_length, the string clean_title returns has at most
\* max_length characters and ends with the marker ' #Shorts'.
C17_LengthBounded ==
    (call.op = "clean_title" /\ call.returned /\ Len(CallSuffix) <= call.max_length)
        => (/\ Len(call.ret) <= call.max_length
            /\ EndsWith(call.ret, Str(" #Shorts")))

\* C17's case: a title too long for the space left was cut to words that
\* fit, the result staying within max_length.
C17_Witness ==
    /\ call.op = "clean_title" /\ call.returned
    /\ Len(CallSuffix) <= call.max_length /\ CallTruncates
    /\ Len(call.ret) > Len(CallSuffix) /\ Len(call.ret) <= call.max_length

\* C18: whenever clean_title truncates it splits no word: the title part of
\* the result is the first k whole words (k >= 0) of the cleaned title
\* joined by single spaces, followed by the suffix.
C18_WholeWordsOnly ==
    (call.op = "clean_title" /\ call.returned /\ CallTruncates)
        => \E k \in 0..Len(CallWords) :
              call.ret = Join(SubSeq(CallWords, 1, k)) \o CallSuffix

\* C18's case: of a title of several words, some but not all were kept.
C18_Witness ==
    /\ call.op = "clean_title" /\ call.returned /\ CallTruncates
    /\ \E k \in 1..(Len(CallWords) - 1) :
          call.ret = Join(SubSeq(CallWords, 1, k)) \o CallSuffix

\* The suffix C19 describes: every supplied tag (an entry that is not
\* blank, trimmed), in the supplied order, without its leading '#'
\* characters and prefixed with one '#', separated by single spaces and
\* followed by the marker; the marker alone when no tag is supplied.
RECURSIVE SuppliedTags(_)
SuppliedTags(hashtags) ==
    IF hashtags = <<>> THEN <<>>
    ELSE (IF Strip(Head(hashtags)) = <<>> THEN <<>>
          ELSE <<LStripHash(Strip(Head(hashtags)))>>)
         \o SuppliedTags(Tail(hashtags))

RECURSIVE TagsText(_)
TagsText(tags) ==
    IF tags = <<>> THEN <<>>
    ELSE <<" ", "#">> \o Head(tags) \o TagsText(Tail(tags))

ExpectedSuffix(hashtags) == TagsText(SuppliedTags(hashtags)) \o Str(" #Shorts")

\* C19: for any hashtag list the result of clean_title ends with the suffix
\* that holds each supplied tag, in order, undeduplicated and in its own
\* case, stripped of leading '#' and prefixed with a single '#', separated
\* by single spaces and followed by the marker (with no hashtags exactly
\* ' #Shorts'), and nothing before that suffix belongs to it.
C19_SuffixHoldsEveryTag ==
    (call.op = "clean_title" /\ call.returned)
        => (/\ EndsWith(call.ret, ExpectedSuffix(call.hashtags))
            /\ \A n \in 1..(Len(call.ret) - Len(ExpectedSuffix(call.hashtags))) :
                  call.ret[n] # "#"
            /\ (Len(call.ret) > Len(ExpectedSuffix(call.hashtags))
                  => call.ret[Len(call.ret) - Len(ExpectedSuffix(call.hashtags))] # " "))

\* C20: when the hashtag suffix alone has max_length or more characters
\* (available <= 0), clean_title returns the empty title followed by the
\* whole suffix, untruncated.
C20_EmptyTitleFullSuffix ==
    (call.op = "clean_title" /\ call.returned /\ CallAvailable <= 0)
        => call.ret = CallSuffix

\* C20's case: a title with words and a suffix longer than max_length.
C20_Witness ==
    /\ call.op = "clean_title" /\ call.returned
    /\ CallAvailable < 0 /\ CallWords # <<>>
    /\ Len(call.ret) > call.max_length /\ call.ret = CallSuffix

\* ------------------------------------------------------------ frame claims

\* The mapping accounts.json held before the call and holds after it.
MappingBefore == json_load(call.store.data).val
MappingAfter == json_load(storeFile.data).val

\* C21: a successful update_account_token(name, token, expiry) changes only
\* the named account's token, and its token_expiry only when an expiry is
\* supplied: the store holds the same accounts, every other account and
\* every other field of the named account is as before, the token is the
\* one given, and without an expiry the stored token_expiry (present or
\* absent) is left as it was.
C21_OnlyTokenAndExpiryChange ==
    (call.op = "update_account_token" /\ call.ret = "True")
        => (/\ storeFile.exists /\ json_load(storeFile.data).ok
            /\ DOMAIN MappingAfter = DOMAIN MappingBefore
            /\ \A n \in DOMAIN MappingBefore \ {call.args[1]} :
                  MappingAfter[n] = MappingBefore[n]
            /\ LET before == MappingBefore[call.args[1]]
                   after == MappingAfter[call.args[1]]
               IN  /\ DOMAIN after \ {"token", "token_expiry"}
                         = DOMAIN before \ {"token", "token_expiry"}
                   /\ \A k \in DOMAIN before \ {"token", "token_expiry"} :
                         after[k] = before[k]
                   /\ "token" \in DOMAIN after /\ after["token"] = call.args[2]
                   /\ IF call.args[3] \in {PyNone, ""}
                      THEN /\ ("token_expiry" \in DOMAIN after)
                                 = ("token_expiry" \in DOMAIN before)
                           /\ Get(after, "token_expiry") = Get(before, "token_expiry")
                      ELSE Get(after, "token_expiry") = call.args[3])

\* C21's case: an update without an expiry succeeded on a store of two
\* accounts whose named account had a token_expiry and another token.
C21_Witness ==
    /\ call.op = "update_account_token" /\ call.ret = "True"
    /\ call.args[1] = "acct1" /\ call.args[3] = PyNone
    /\ "acct2" \in DOMAIN MappingBefore
    /\ "token_expiry" \in DOMAIN MappingBefore["acct1"]
    /\ MappingBefore["acct1"]["token"] # call.args[2]
    /\ MappingAfter["acct1"]["token"] = call.args[2]
    /\ MappingAfter["acct2"] = MappingBefore["acct2"]

\* A refresh that returned a token was made in this step: the only place
\* update_account_token is called from (main.py 149-156 and 423-429).
RefreshSucceededNow ==
    /\ req.kind \in {"upload", "refresh"}
    /\ hist'.refreshCalls = hist.refreshCalls + 1
    /\ hist'.refreshOutcome \in {"token", "token_expiry"}
    /\ hist'.updateRes = "True"

\* C22: accounts.json (and its backup) is written only as the result of a
\* successful token refresh: a step of a request changes the file only when
\* that step made a refresh call that returned a token, so an /upload that
\* is rejected at validation, names an unknown account, uses the stored
\* token or whose refresh fails leaves it unchanged, as does every
\* /check-account request.
C22_StoreWrittenOnlyOnRefresh ==
    [][(storeFile' # storeFile \/ bakFile' # bakFile) => RefreshSucceededNow]_vars

\* C22's case: an /upload whose refresh call raised has ended and the store
\* was never rewritten (no backup was made).
C22_Witness ==
    /\ req.kind = "upload" /\ pc = "Failed" /\ hist.refreshOutcome = "error"
    /\ storeFile.exists /\ ~bakFile.exists

\* C23: the result of update_account_token is checked by its callers: a
\* request that is answered with success (/refresh-token's 200, /upload
\* going on past the refresh) had update_account_token return True; a False
\* result (the store missing at that moment, a read or parse failure) is
\* never reported as a successful persist.
C23_FalseIsNeverSuccess ==
    SetupOff => \A p \in Procs :
        (proc[p].pc = "done" /\ proc[p].status = 200) => proc[p].utRes = "True"

\* ------------------------------------------------------------ release claims

\* The request holds temp files that the mixer or the remote upload may
\* still read.
InFlight == pc \in {"Staged", "Mixed", "Authorized", "Uploading"}

\* Until the terminal transition nothing is released: before staging there
\* is no temp file, and while the request is in flight the staged upload
\* and the file handed to the upload exist and cleanup has not run.
NothingReleasedEarly ==
    /\ pc \in {"idle", "Received", "Validated", "Responded"}
          => (DOMAIN disk = {} /\ temp_files = <<>> /\ hist.cleanupRuns = 0)
    /\ InFlight
          => (/\ TempVideo \in DOMAIN disk
              /\ final_video_path \in DOMAIN disk
              /\ (pc # "Staged" /\ hist.mixCalls = 1) => final_video_path = OutputPath
              /\ hist.cleanupRuns = 0)

\* Cleanup runs once, at the terminal transition, over a list that names no
\* file twice and never names the output of a mix that failed.
CleanupOnceOverRegistered ==
    /\ Terminal => hist.cleanupRuns = 1
    /\ \A i, j \in 1..Len(temp_files) : temp_files[i] = temp_files[j] => i = j
    /\ hist.mixOutcome \notin {"-", "ok"} => OutputPath \notin Range(temp_files)

\* C24 as stated: every temp artifact of an /upload request is released
\* exactly once and only at the terminal transition: none is deleted while
\* the mixer or the remote upload may still read it, cleanup runs once, a
\* mixer output the mixer deleted on failure is never registered for
\* cleanup, and after the terminal transition no artifact is left.
C24_ReleasedExactlyOnce ==
    /\ NothingReleasedEarly
    /\ CleanupOnceOverRegistered
    /\ Terminal => DOMAIN disk = {}

\* C24 amended: as stated, but after the terminal transition an artifact is
\* left (released zero times) exactly when the os.unlink that was to delete
\* it raised: in cleanup_temp_files for a registered file, or in the mixer's
\* error handler for its unregistered output.
C24_ReleasedOnceUnlessUnlinkRaised ==
    /\ NothingReleasedEarly
    /\ CleanupOnceOverRegistered
    /\ Terminal => \A f \in {TempVideo, OutputPath} :
          f \in DOMAIN disk <=>
             \/ f \in hist.unlinkFailed
             \/ f = OutputPath /\ hist.mixUnlinkFailed

\* C24's case: the mix failed leaving a partial output that the mixer
\* deleted itself; the output was not registered, cleanup ran once over the
\* staged upload alone and nothing is left.
C24_Witness ==
    /\ pc = "Failed" /\ hist.mixOutcome = "tool_failed_partial"
    /\ ~hist.mixUnlinkFailed
    /\ temp_files = <<TempVideo>> /\ hist.cleanupRuns = 1
    /\ DOMAIN disk = {}

=============================================================================
